---- MODULE Spec2Model ----
(***************************************************************************)
(* Vacancy statistics (code_Fail.py) and the currency table loader         *)
(* (3_5_1.py).                                                             *)
(*                                                                         *)
(* Conventions of the model                                                *)
(*  - A Python str read from the CSV file is a sequence of one-character   *)
(*    strings, so that slicing, substring search and number parsing are    *)
(*    computed; <<>> is the empty str "".  Cyrillic literals of the source *)
(*    are transliterated to ASCII.                                         *)
(*  - A Python dict is a sequence of <<key, value>> pairs with pairwise    *)
(*    different keys, in insertion order (dicts keep insertion order).     *)
(*  - Money is kept exact in fixed point: a rate is a multiple of          *)
(*    1/RateScale, averageSalary a multiple of 1/AvgScale, and salaryRub   *)
(*    and every sum of salaryRub a multiple of 1/(RateScale*AvgScale).     *)
(*    The rounding error of IEEE doubles is not modelled; on the inputs of *)
(*    this model the floored averages of the code equal the exact ones.    *)
(***************************************************************************)
EXTENDS Integers, Sequences, FiniteSets, TLC

VARIABLES
    file,               \* the rows csv.reader yields for vacancies_by_year.csv
    pc,                 \* position of the run inside DataSet.__init__
    stdout,             \* lines printed so far
    exitStatus,         \* <<>>, or <<n>> once the process ended with status n
    firstLine,          \* DataSet.firstLine
    otherLines,         \* DataSet.otherLines
    filterVacancies,    \* DataSet.filterVacancies
    necessaryVacancies, \* DataSet.necessaryVacancies
    allYears,           \* DataSet.allYears
    yearSalary,         \* DataSet.yearSalary
    year_to_count,      \* DataSet.year_to_count
    yearSalary_needed,  \* DataSet.yearSalary_needed
    yearCount,          \* DataSet.yearCount
    areaSalary,         \* DataSet.areaSalary
    area_to_count,      \* DataSet.area_to_count
    areaPiece,          \* DataSet.areaPiece
    unitCall,           \* a direct call of one DataSet method: its name and arguments
    unitRet,            \* what that call returned
    dbPc,               \* position inside create_table
    dbEnv,              \* what the environment of create_table will do
    dbConn,             \* the local sqlite_connection: "unbound", "open", "closed"
    dbTable,            \* contents of table task_3_5_1 in Database_3_5_1.db
    dbOut,              \* lines create_table printed
    dbRaised            \* the exception that left create_table, or "none"

dsVars == <<file, pc, stdout, exitStatus, firstLine, otherLines, filterVacancies,
            necessaryVacancies, allYears, yearSalary, year_to_count,
            yearSalary_needed, yearCount, areaSalary, area_to_count, areaPiece>>
unitVars == <<unitCall, unitRet>>
dbVars == <<dbPc, dbEnv, dbConn, dbTable, dbOut, dbRaised>>
vars == <<dsVars, unitVars, dbVars>>

(***************************************************************************)
(* Bounds of the model                                                     *)
(***************************************************************************)
MaxRows == 3        \* data rows of a small input file
MaxRare == 2        \* rows of the rare area in a large input file
Slack == 1          \* large files lie within Slack rows of the 1% boundary
MaxEntries == 12    \* entries of a map handed to getSortedDict
MaxCount == 3       \* largest count handed to getAverageSalary
MaxSumHalves == 21  \* largest sum handed to getAverageSalary, in half units
MaxCsvRows == 2     \* rows of currencies.csv and of the table it replaces

(***************************************************************************)
(* Sequences and dicts                                                     *)
(***************************************************************************)
Range(s) == {s[i] : i \in 1..Len(s)}

DictKeys(d) == [i \in 1..Len(d) |-> d[i][1]]
HasKey(d, k) == \E i \in 1..Len(d) : d[i][1] = k
DictGet(d, k) == d[CHOOSE i \in 1..Len(d) : d[i][1] = k][2]
\* d[k] = v: an existing key keeps its position, a new key goes last
DictSet(d, k, v) ==
    IF HasKey(d, k)
    THEN LET i == CHOOSE j \in 1..Len(d) : d[j][1] = k
         IN SubSeq(d, 1, i - 1) \o << <<k, v>> >> \o SubSeq(d, i + 1, Len(d))
    ELSE Append(d, <<k, v>>)

(***************************************************************************)
(* str operations                                                          *)
(***************************************************************************)
DigitChars == <<"0", "1", "2", "3", "4", "5", "6", "7", "8", "9">>
DigitVal(c) == (CHOOSE d \in 1..10 : DigitChars[d] = c) - 1

\* int(s) for a str of decimal digits
RECURSIVE ParseInt(_)
ParseInt(s) ==
    IF Len(s) = 0 THEN 0
    ELSE 10 * ParseInt(SubSeq(s, 1, Len(s) - 1)) + DigitVal(s[Len(s)])

\* s[:n]
Slice(s, n) == SubSeq(s, 1, IF n < Len(s) THEN n ELSE Len(s))

\* math.floor(float(s)) for a str "ddd" or "ddd.ddd" (no sign, no exponent):
\* the digits before the decimal point
FloorFloat(s) ==
    LET dots == {i \in 1..Len(s) : s[i] = "."}
        cut == IF dots = {} THEN Len(s) + 1
               ELSE CHOOSE i \in dots : \A j \in dots : i <= j
    IN ParseInt(SubSeq(s, 1, cut - 1))

\* s.find(sub): the lowest index (from 0) where sub occurs in s, or -1
Find(s, sub) ==
    LET at == {i \in 1..(Len(s) - Len(sub) + 1) : SubSeq(s, i, i + Len(sub) - 1) = sub}
    IN IF at = {} THEN -1 ELSE (CHOOSE i \in at : \A j \in at : i <= j) - 1

(***************************************************************************)
(* Static configuration                                                    *)
(***************************************************************************)
RateScale == 10000
AvgScale == 2
\* currency_to_rub, in units of 1/RateScale
currency_to_rub ==
    <<  <<<<"A", "Z", "N">>, 350000>>, <<<<"B", "Y", "R">>, 239100>>,
        <<<<"E", "U", "R">>, 599000>>, <<<<"G", "E", "L">>, 217400>>,
        <<<<"K", "G", "S">>, 7600>>, <<<<"K", "Z", "T">>, 1300>>,
        <<<<"R", "U", "R">>, 10000>>, <<<<"U", "A", "H">>, 16400>>,
        <<<<"U", "S", "D">>, 606600>>, <<<<"U", "Z", "S">>, 55>>  >>

\* InputConect.professionName ('Analitik' transliterates the source's literal)
professionName == <<"A", "n", "a", "l", "i", "t", "i", "k">>

\* exitStatus while the process runs; <<n>> once it ended with status n
NotExited == <<>>

(***************************************************************************)
(* Salary and Vacancy                                                      *)
(***************************************************************************)
\* Salary.__init__ with the average floored as well
Salary_FlooredAverage(dic) ==
    LET from == FloorFloat(dic["salary_from"])
        to == FloorFloat(dic["salary_to"])
        average == ((to + from) \div 2) * AvgScale
    IN [salary_from |-> from,
        salary_to |-> to,
        salary_currency |-> dic["salary_currency"],
        averageSalary |-> average,
        salaryRub |-> DictGet(currency_to_rub, dic["salary_currency"]) * average]

\* Salary.__init__ on a dict whose currency is in the table; averageSalary in
\* units of 1/AvgScale, salaryRub in units of 1/(RateScale*AvgScale)
Salary(dic) ==
    LET from == FloorFloat(dic["salary_from"])
        to == FloorFloat(dic["salary_to"])
        average == ((to + from) * AvgScale) \div 2
    IN [salary_from |-> from,
        salary_to |-> to,
        salary_currency |-> dic["salary_currency"],
        averageSalary |-> average,
        salaryRub |-> DictGet(currency_to_rub, dic["salary_currency"]) * average]

\* currency_to_rub[...] raises KeyError
SalaryRaises(dic) == ~HasKey(currency_to_rub, dic["salary_currency"])

\* Vacancy.__init__
Vacancy(dic) ==
    [dic |-> [k \in DOMAIN dic \cup {"year"} |->
                 IF k = "year" THEN ParseInt(Slice(dic["published_at"], 4))
                 ELSE dic[k]],
     salary |-> Salary(dic),
     is_needed |-> dic["is_needed"]]

\* dict(zip(firstLine, line)) with the is_needed entry csv_filter adds
RowDict(header, line) ==
    LET zipped == [h \in Range(header) |->
                      line[CHOOSE i \in 1..Len(header) :
                              header[i] = h /\ \A j \in 1..Len(header) :
                                                header[j] = h => j <= i]]
    IN [k \in DOMAIN zipped \cup {"is_needed"} |->
           IF k = "is_needed" THEN Find(zipped["name"], professionName) > -1
           ELSE zipped[k]]

(***************************************************************************)
(* DataSet: the pure methods                                               *)
(***************************************************************************)
\* csv_reader's condition without the test for an empty field
RowAccepted_LengthOnly(line, header) == Len(line) = Len(header)

\* csv_reader's condition on a data row
RowAccepted(line, header) == ~(<<>> \in Range(line)) /\ Len(line) = Len(header)

\* tryToAdd that stores val over the value already there
tryToAdd_Overwrite(dic, key, val) == DictSet(dic, key, val)

\* tryToAdd
tryToAdd(dic, key, val) ==
    IF HasKey(dic, key) THEN DictSet(dic, key, DictGet(dic, key) + val)
    ELSE DictSet(dic, key, val)

\* sorted(list(set(...))) of integers
RECURSIVE SortedList(_)
SortedList(S) ==
    IF S = {} THEN <<>>
    ELSE LET m == CHOOSE x \in S : \A y \in S : x <= y
         IN <<m>> \o SortedList(S \ {m})

\* getAverageSalary that rounds to the nearest integer instead of down
getAverageSalary_Nearest(count, sum) ==
    [i \in 1..Len(count) |->
        IF count[i][2] = 0 THEN <<count[i][1], 0>>
        ELSE <<count[i][1],
               (2 * DictGet(sum, count[i][1]) + count[i][2] * RateScale * AvgScale)
                   \div (2 * count[i][2] * RateScale * AvgScale)>>]

\* getAverageSalary; sum in units of 1/(RateScale*AvgScale), the result in whole units
getAverageSalary(count, sum) ==
    [i \in 1..Len(count) |->
        IF count[i][2] = 0 THEN <<count[i][1], 0>>
        ELSE <<count[i][1],
               DictGet(sum, count[i][1]) \div (count[i][2] * RateScale * AvgScale)>>]

TopN == 10
\* getSortedDict without reverse=True
getSortedDict_Ascending(keySalary) ==
    LET n == Len(keySalary)
        rank(i) == 1 + Cardinality({j \in 1..n :
                        \/ keySalary[j][2] < keySalary[i][2]
                        \/ keySalary[j][2] = keySalary[i][2] /\ j < i})
        sorted == [r \in 1..n |-> keySalary[CHOOSE i \in 1..n : rank(i) = r]]
    IN SubSeq(sorted, 1, IF n < TopN THEN n ELSE TopN)

\* getSortedDict: a stable sort by descending value, cut to the first TopN
getSortedDict(keySalary) ==
    LET n == Len(keySalary)
        rank(i) == 1 + Cardinality({j \in 1..n :
                        \/ keySalary[j][2] > keySalary[i][2]
                        \/ keySalary[j][2] = keySalary[i][2] /\ j < i})
        sorted == [r \in 1..n |-> keySalary[CHOOSE i \in 1..n : rank(i) = r]]
    IN SubSeq(sorted, 1, IF n < TopN THEN n ELSE TopN)

\* updateKeys
RECURSIVE updateKeysFrom(_, _, _)
updateKeysFrom(keyCount, years, i) ==
    IF i > Len(years) THEN keyCount
    ELSE updateKeysFrom(IF HasKey(keyCount, years[i]) THEN keyCount
                        ELSE DictSet(keyCount, years[i], 0),
                        years, i + 1)
\* updateKeys that adds nothing
updateKeys_NoFill(keyCount, years) == keyCount

updateKeys(keyCount, years) == updateKeysFrom(keyCount, years, 1)

\* the loop of getKey over vacancies[lo..hi], left to right, from the dicts in acc
\* (<<keySum, keyCount>>); the range is halved to keep TLC's evaluation shallow
RECURSIVE AccumulateRange(_, _, _, _, _)
AccumulateRange(acc, vacancies, key_str, lo, hi) ==
    IF lo > hi THEN acc
    ELSE IF lo = hi
    THEN LET v == vacancies[lo]
         IN <<tryToAdd(acc[1], v.dic[key_str], v.salary.salaryRub),
              tryToAdd(acc[2], v.dic[key_str], 1)>>
    ELSE LET mid == (lo + hi) \div 2
             left == AccumulateRange(acc, vacancies, key_str, lo, mid)
         IN \* the test (always true) makes TLC evaluate left before the right half
            IF Len(left) = 2
            THEN AccumulateRange(left, vacancies, key_str, mid + 1, hi)
            ELSE left
Accumulate(vacancies, key_str) ==
    AccumulateRange(<< <<>>, <<>> >>, vacancies, key_str, 1, Len(vacancies))

PruneDen == 100
\* the share test with >= in place of >
AreaShareKept_Inclusive(count, total) == count * 100 >= total

\* item[1] / len(vacancies) > 0.01, with 0.01 = 1/PruneDen.  The quotient of two
\* doubles is correctly rounded, so for counts below 10^15 it exceeds the double
\* 0.01 exactly when count * 100 > total.
AreaShareKept(count, total) == count * PruneDen > total

\* filter(lambda item: ..., keyCount.items()): keeps the order of the kept items
RECURSIVE FilterDict(_, _)
FilterDict(d, total) ==
    IF Len(d) = 0 THEN <<>>
    ELSE LET rest == FilterDict(SubSeq(d, 1, Len(d) - 1), total)
             last == d[Len(d)]
         IN IF AreaShareKept(last[2], total) THEN Append(rest, last) ELSE rest

\* getKey: <<keyAverageSalary, keyCount>>
getKey(vacancies, key_str, isArea, years) ==
    LET acc == Accumulate(vacancies, key_str)
        keySum == IF ~isArea THEN updateKeys(acc[1], years) ELSE acc[1]
        keyCount == IF ~isArea THEN updateKeys(acc[2], years)
                    ELSE FilterDict(acc[2], Len(vacancies))
    IN <<getAverageSalary(keyCount, keySum), keyCount>>

PieceScale == 10000
\* round(val / count_vacs, 4) in units of 1/PieceScale: Python rounds half to even
RoundPiece(val, count_vacs) ==
    LET q == (val * PieceScale) \div count_vacs
        r == (val * PieceScale) % count_vacs
    IN IF 2 * r > count_vacs \/ (2 * r = count_vacs /\ q % 2 = 1) THEN q + 1 ELSE q

(***************************************************************************)
(* Input files                                                             *)
(***************************************************************************)
Header == <<"name", "salary_from", "salary_to", "salary_currency", "area_name",
            "published_at">>

RUR == <<"R", "U", "R">>
EUR == <<"E", "U", "R">>
USD == <<"U", "S", "D">>
Moscow == <<"M", "s", "k">>
Piter == <<"S", "P", "b">>
Kazan == <<"K", "z", "n">>
Date(y4) == <<"2", "0", "0", y4, "-", "1", "2">>

\* well-formed rows
RowA == <<professionName, <<"1", "0", "0">>, <<"2", "0", "0">>, RUR, Moscow, Date("7")>>
RowB == <<<<"Q", "A">>, <<"1", "0", "0", ".", "7">>, <<"2", "0", "1", ".", "9">>,
          EUR, Moscow, Date("8")>>
RowC == <<<<"I", "T", " ">> \o professionName, <<"1", "0", "0">>, <<"2", "0", "0">>,
          EUR, Piter, Date("8")>>
RowD == <<<<"a", "n", "a", "l", "i", "t", "i", "k">>, <<"5", "0">>,
          <<"6", "0", ".", "5">>, USD, Kazan, Date("9")>>
\* a row whose currency is not in currency_to_rub
RowX == <<professionName, <<"1", "0">>, <<"2", "0">>, <<"X", "X", "X">>, Moscow, Date("7")>>
\* rows csv_reader rejects: an empty field, a missing field, an extra field
RowEmptyField == <<professionName, <<"7", "0">>, <<"9", "0">>, RUR, <<>>, Date("8")>>
RowShort == <<professionName, <<"7", "0">>, <<"9", "0">>, RUR, Piter>>
RowLong == <<professionName, <<"7", "0">>, <<"9", "0">>, RUR, Piter, Date("9"), <<"x">>>>

RowPool == {RowA, RowB, RowC, RowD, RowX, RowEmptyField, RowShort, RowLong}

SmallFiles ==
    {<<>>} \cup
    {<<Header>> \o rows : rows \in UNION {[1..n -> RowPool] : n \in 0..MaxRows}}

\* k rows of a rare area among m rows of a common one, around k/(k+m) = 1/PruneDen
LargeFile(k, m) == <<Header>> \o [i \in 1..(k + m) |-> IF i <= k THEN RowD ELSE RowA]
LargeFiles ==
    {LargeFile(km[1], km[2]) :
        km \in {x \in (1..MaxRare) \X (1..(PruneDen * MaxRare + Slack)) :
                   x[1] + x[2] \in (PruneDen * x[1] - Slack)..(PruneDen * x[1] + Slack)}}

InputFiles == SmallFiles \cup LargeFiles

(***************************************************************************)
(* The run of DataSet()                                                    *)
(***************************************************************************)
UnitIdle == unitCall = [fn |-> "none"] /\ unitRet = <<>>
DbIdle ==
    /\ dbPc = "idle" /\ dbEnv = [csv |-> <<>>, error |-> "none"] /\ dbConn = "unbound"
    /\ dbTable = <<>> /\ dbOut = <<>> /\ dbRaised = "none"

DataSetAt(p) ==
    /\ pc = p /\ stdout = <<>> /\ exitStatus = NotExited
    /\ firstLine = <<>> /\ otherLines = <<>>
    /\ filterVacancies = <<>> /\ necessaryVacancies = <<>> /\ allYears = <<>>
    /\ yearSalary = <<>> /\ year_to_count = <<>>
    /\ yearSalary_needed = <<>> /\ yearCount = <<>>
    /\ areaSalary = <<>> /\ area_to_count = <<>> /\ areaPiece = <<>>

Init ==
    /\ file \in InputFiles
    /\ DataSetAt("checkFile")
    /\ UnitIdle
    /\ DbIdle

\* sys.exit() with no argument: SystemExit(None), which ends the process with status 0
SysExitStatus == 0
\* the status of a process ended by an uncaught exception
UncaughtStatus == 1

\* InputConect.checkFile: no row at all
checkFile_Empty ==
    /\ UNCHANGED <<unitVars, dbVars>>
    /\ pc = "checkFile"
    /\ Len(file) = 0
    /\ stdout' = Append(stdout, "Pustoj fajl")
    /\ exitStatus' = <<SysExitStatus>>
    /\ pc' = "exited"
    /\ UNCHANGED <<file, firstLine, otherLines, filterVacancies, necessaryVacancies,
                   allYears, yearSalary, year_to_count, yearSalary_needed, yearCount,
                   areaSalary, area_to_count, areaPiece>>

\* InputConect.checkFile: a first row and no second row
checkFile_NoData ==
    /\ UNCHANGED <<unitVars, dbVars>>
    /\ pc = "checkFile"
    /\ Len(file) = 1
    /\ stdout' = Append(stdout, "Net dannyh")
    /\ exitStatus' = <<SysExitStatus>>
    /\ pc' = "exited"
    /\ UNCHANGED <<file, firstLine, otherLines, filterVacancies, necessaryVacancies,
                   allYears, yearSalary, year_to_count, yearSalary_needed, yearCount,
                   areaSalary, area_to_count, areaPiece>>

\* InputConect.checkFile: at least two rows
checkFile_Ok ==
    /\ UNCHANGED <<unitVars, dbVars>>
    /\ pc = "checkFile"
    /\ Len(file) >= 2
    /\ pc' = "csv_reader"
    /\ UNCHANGED <<file, stdout, exitStatus, firstLine, otherLines, filterVacancies,
                   necessaryVacancies, allYears, yearSalary, year_to_count,
                   yearSalary_needed, yearCount, areaSalary, area_to_count, areaPiece>>

\* the list comprehension of csv_reader over the rows after the first
ReadLines(rows, header) == SelectSeq(rows, LAMBDA line : RowAccepted(line, header))

\* DataSet.csv_reader
csv_reader ==
    /\ UNCHANGED <<unitVars, dbVars>>
    /\ pc = "csv_reader"
    /\ firstLine' = file[1]
    /\ otherLines' = ReadLines(Tail(file), file[1])
    /\ pc' = "csv_filter"
    /\ UNCHANGED <<file, stdout, exitStatus, filterVacancies, necessaryVacancies,
                   allYears, yearSalary, year_to_count, yearSalary_needed, yearCount,
                   areaSalary, area_to_count, areaPiece>>

\* the vacancies csv_filter builds from the first n lines
BuildVacancies(lines, header, n) ==
    [i \in 1..n |-> Vacancy(RowDict(header, lines[i]))]

\* the lines at which Vacancy(...) raises
RaisingLines(lines, header) ==
    {i \in 1..Len(lines) : SalaryRaises(RowDict(header, lines[i]))}

\* DataSet.csv_filter, every line converted
csv_filter ==
    /\ UNCHANGED <<unitVars, dbVars>>
    /\ pc = "csv_filter"
    /\ RaisingLines(otherLines, firstLine) = {}
    /\ filterVacancies' = BuildVacancies(otherLines, firstLine, Len(otherLines))
    /\ necessaryVacancies' = SelectSeq(filterVacancies', LAMBDA v : v.is_needed)
    /\ pc' = "getYears"
    /\ UNCHANGED <<file, stdout, exitStatus, firstLine, otherLines, allYears,
                   yearSalary, year_to_count, yearSalary_needed, yearCount,
                   areaSalary, area_to_count, areaPiece>>

\* DataSet.csv_filter, ended by the KeyError of the first line with an unknown
\* currency: the vacancies before it were appended, necessaryVacancies was never set
csv_filter_KeyError ==
    /\ UNCHANGED <<unitVars, dbVars>>
    /\ pc = "csv_filter"
    /\ RaisingLines(otherLines, firstLine) # {}
    /\ LET bad == RaisingLines(otherLines, firstLine)
           first == CHOOSE i \in bad : \A j \in bad : i <= j
       IN filterVacancies' = BuildVacancies(otherLines, firstLine, first - 1)
    /\ exitStatus' = <<UncaughtStatus>>
    /\ pc' = "crashed"
    /\ UNCHANGED <<file, stdout, firstLine, otherLines, necessaryVacancies, allYears,
                   yearSalary, year_to_count, yearSalary_needed, yearCount,
                   areaSalary, area_to_count, areaPiece>>

\* DataSet.getYears
getYears ==
    /\ UNCHANGED <<unitVars, dbVars>>
    /\ pc = "getYears"
    /\ allYears' = SortedList({filterVacancies[i].dic["year"] :
                                  i \in 1..Len(filterVacancies)})
    /\ pc' = "numberGraph"
    /\ UNCHANGED <<file, stdout, exitStatus, firstLine, otherLines, filterVacancies,
                   necessaryVacancies, yearSalary, year_to_count, yearSalary_needed,
                   yearCount, areaSalary, area_to_count, areaPiece>>

\* DataSet.numberGraph
numberGraph ==
    /\ UNCHANGED <<unitVars, dbVars>>
    /\ pc = "numberGraph"
    /\ LET count_vacs == Len(filterVacancies)
           all == getKey(filterVacancies, "year", FALSE, allYears)
           needed == getKey(necessaryVacancies, "year", FALSE, allYears)
           area == getKey(filterVacancies, "area_name", TRUE, allYears)
           piece == [i \in 1..Len(area[2]) |->
                        <<area[2][i][1], RoundPiece(area[2][i][2], count_vacs)>>]
       IN /\ yearSalary' = all[1]
          /\ year_to_count' = all[2]
          /\ yearSalary_needed' = needed[1]
          /\ yearCount' = needed[2]
          /\ areaSalary' = getSortedDict(area[1])
          /\ area_to_count' = area[2]
          /\ areaPiece' = getSortedDict(piece)
    /\ pc' = "done"
    /\ UNCHANGED <<file, stdout, exitStatus, firstLine, otherLines, filterVacancies,
                   necessaryVacancies, allYears>>

Next ==
    \/ checkFile_Empty
    \/ checkFile_NoData
    \/ checkFile_Ok
    \/ csv_reader
    \/ csv_filter
    \/ csv_filter_KeyError
    \/ getYears
    \/ numberGraph

Spec == Init /\ [][Next]_vars

(***************************************************************************)
(* Properties of the run of DataSet()                                      *)
(***************************************************************************)
YearOf(v) == v.dic["year"]
AreaOf(v) == v.dic["area_name"]
YearsOf(vacancies) == {YearOf(vacancies[i]) : i \in 1..Len(vacancies)}
AreasOf(vacancies) == {AreaOf(vacancies[i]) : i \in 1..Len(vacancies)}
WithYear(vacancies, y) == {i \in 1..Len(vacancies) : YearOf(vacancies[i]) = y}
WithArea(vacancies, a) == {i \in 1..Len(vacancies) : AreaOf(vacancies[i]) = a}
IsAscending(s) == \A i \in 1..(Len(s) - 1) : s[i] < s[i + 1]
AfterFilter == pc \in {"getYears", "numberGraph", "done"}
AfterReader == pc \in {"csv_filter", "getYears", "numberGraph", "done", "crashed"}

RECURSIVE SumRub(_, _, _, _)
\* the sum of salaryRub over the vacancies of year y among vacancies[lo..hi]
SumRub(vacancies, y, lo, hi) ==
    IF lo > hi THEN 0
    ELSE IF lo = hi
    THEN (IF YearOf(vacancies[lo]) = y THEN vacancies[lo].salary.salaryRub ELSE 0)
    ELSE SumRub(vacancies, y, lo, (lo + hi) \div 2)
         + SumRub(vacancies, y, (lo + hi) \div 2 + 1, hi)

RECURSIVE SumValues(_)
SumValues(d) == IF Len(d) = 0 THEN 0 ELSE d[1][2] + SumValues(Tail(d))

\* C1: every year of the unfiltered record list is a key of the year maps of the
\* profession subset; a year the subset has no record of has count 0 and average 0;
\* and the entries accumulated before updateKeys are still there, unchanged.
C1_ZeroFill ==
    pc = "done" =>
        /\ \A y \in YearsOf(filterVacancies) :
            /\ HasKey(yearCount, y)
            /\ HasKey(yearSalary_needed, y)
            /\ WithYear(necessaryVacancies, y) = {} =>
                  DictGet(yearCount, y) = 0 /\ DictGet(yearSalary_needed, y) = 0
        /\ LET before == Accumulate(necessaryVacancies, "year")[2]
           IN SubSeq(yearCount, 1, Len(before)) = before

C1_Witness ==
    /\ pc = "done"
    /\ necessaryVacancies # <<>>
    /\ \E y \in YearsOf(filterVacancies) :
          /\ WithYear(necessaryVacancies, y) = {}
          /\ DictGet(yearCount, y) = 0
          /\ DictGet(yearSalary_needed, y) = 0

\* C2: an area with at most 1% of the records handed to the area grouping is a key
\* of none of area_to_count, areaSalary, areaPiece; exactly 1% is dropped too.
C2_Pruning ==
    pc = "done" =>
        \A a \in AreasOf(filterVacancies) :
            Cardinality(WithArea(filterVacancies, a)) * 100 <= Len(filterVacancies) =>
                /\ ~HasKey(area_to_count, a)
                /\ ~HasKey(areaSalary, a)
                /\ ~HasKey(areaPiece, a)

C2_Witness ==
    /\ pc = "done"
    /\ \E a \in AreasOf(filterVacancies) :
          /\ Cardinality(WithArea(filterVacancies, a)) * 100 = Len(filterVacancies)
          /\ ~HasKey(area_to_count, a)
          /\ ~HasKey(areaSalary, a)
          /\ ~HasKey(areaPiece, a)

\* C5: each of the four year maps lists its keys in ascending year order, whatever
\* the order of the rows.
C5_YearMapsAscending ==
    pc = "done" =>
        /\ IsAscending(DictKeys(yearSalary))
        /\ IsAscending(DictKeys(year_to_count))
        /\ IsAscending(DictKeys(yearSalary_needed))
        /\ IsAscending(DictKeys(yearCount))

\* C6: otherLines is the data rows that have no empty field and as many fields as
\* the header, whole and in input order; reading past a rejected row does not end
\* the run.
C6_IngestionFilter ==
    AfterReader =>
        LET data == Tail(file)
            good == {i \in 1..Len(data) :
                        /\ \A k \in 1..Len(data[i]) : data[i][k] # <<>>
                        /\ Len(data[i]) = Len(file[1])}
        IN /\ Len(otherLines) = Cardinality(good)
           /\ \A i \in good :
                 otherLines[Cardinality({j \in good : j <= i})] = data[i]
           /\ pc = "csv_filter" => exitStatus = NotExited

C6_Witness ==
    /\ pc = "csv_filter"
    /\ exitStatus = NotExited
    /\ \E i \in 2..Len(file) : Len(file[i]) = Len(file[1]) /\ <<>> \in Range(file[i])
    /\ \E i \in 2..Len(file) : Len(file[i]) # Len(file[1])
    /\ Len(otherLines) >= 1
    /\ Len(otherLines) < Len(file) - 1

\* C7: a file of zero rows, or of a header row only, is reported and ends the process
\* with a non-zero status before any record is parsed or any aggregate computed.
C7_EmptyInputExitsNonZero ==
    (Len(file) <= 1 /\ pc # "checkFile") =>
        /\ pc = "exited"
        /\ Len(stdout) = 1
        /\ exitStatus # NotExited
        /\ exitStatus # <<0>>
        /\ otherLines = <<>> /\ filterVacancies = <<>> /\ year_to_count = <<>>

C10_YearPartition ==
    pc = "done" =>
        LET keySum == Accumulate(filterVacancies, "year")[1]
        IN /\ Range(DictKeys(year_to_count)) = YearsOf(filterVacancies)
           /\ Range(DictKeys(keySum)) = YearsOf(filterVacancies)
           /\ \A y \in YearsOf(filterVacancies) :
                 /\ DictGet(year_to_count, y) = Cardinality(WithYear(filterVacancies, y))
                 /\ DictGet(keySum, y) =
                       SumRub(filterVacancies, y, 1, Len(filterVacancies))
           /\ SumValues(year_to_count) = Len(filterVacancies)
           /\ Len(filterVacancies) = Len(otherLines)

C10_Witness ==
    /\ pc = "done"
    /\ Cardinality(YearsOf(filterVacancies)) >= 2
    /\ \E y \in YearsOf(filterVacancies) :
          /\ Cardinality(WithYear(filterVacancies, y)) >= 2
          /\ DictGet(year_to_count, y) = Cardinality(WithYear(filterVacancies, y))
    /\ SumValues(year_to_count) = Len(filterVacancies)

\* C11: the four year maps have the same sequence of keys, so that position i of
\* each of them is the same year (generate_excel builds row i from yearRow[i] of
\* yearSalary and the i-th values of the other three maps).
C11_YearRowAlignment ==
    pc = "done" =>
        /\ DictKeys(year_to_count) = DictKeys(yearSalary)
        /\ DictKeys(yearSalary_needed) = DictKeys(yearSalary)
        /\ DictKeys(yearCount) = DictKeys(yearSalary)

(***************************************************************************)
(* Direct calls of getSortedDict and getAverageSalary, as the doctests make *)
(***************************************************************************)
\* keySalary arguments: key i is the i-th inserted; values of two levels in every
\* arrangement, and the values 1..n (the doctest's map) in every rotation
TwoLevelMaps ==
    {[i \in 1..Len(vals) |-> <<i, vals[i]>>] :
        vals \in UNION {[1..k -> {1, 2}] : k \in 0..MaxEntries}}
RotatedMaps ==
    UNION {{[i \in 1..n |-> <<i, ((i + shift - 1) % n) + 1>>] : shift \in 0..(n - 1)} :
              n \in 1..MaxEntries}
SortedCalls ==
    {[fn |-> "getSortedDict", keySalary |-> m, returned |-> FALSE] :
        m \in TwoLevelMaps \cup RotatedMaps}

\* count and sum arguments: the sums are multiples of half a unit
UnitKeys == <<"2007", "2008">>
HalfUnit == (RateScale * AvgScale) \div 2
CountMaps ==
    {[i \in 1..Len(c) |-> <<UnitKeys[i], c[i]>>] :
        c \in UNION {[1..k -> 0..MaxCount] : k \in 1..Len(UnitKeys)}}
SumMapsFor(count) ==
    {[i \in 1..Len(count) |-> <<count[i][1], h[i] * HalfUnit>>] :
        h \in [1..Len(count) -> 0..MaxSumHalves]}
AverageCalls ==
    {[fn |-> "getAverageSalary", count |-> cs[1], sum |-> cs[2] \o extra,
      returned |-> FALSE] :
        cs \in UNION {{<<c, sm>> : sm \in SumMapsFor(c)} : c \in CountMaps},
        extra \in {<<>>, << <<"2009", 7 * HalfUnit>> >>}}

InitUnit ==
    /\ file = <<>>
    /\ DataSetAt("idle")
    /\ DbIdle
    /\ unitCall \in SortedCalls \cup AverageCalls
    /\ unitRet = <<>>

\* DataSet().getSortedDict(keySalary=...)
Call_getSortedDict ==
    /\ UNCHANGED <<dsVars, dbVars>>
    /\ unitCall.fn = "getSortedDict"
    /\ ~unitCall.returned
    /\ unitRet' = getSortedDict(unitCall.keySalary)
    /\ unitCall' = [unitCall EXCEPT !.returned = TRUE]

\* DataSet().getAverageSalary(count=..., sum=...)
Call_getAverageSalary ==
    /\ UNCHANGED <<dsVars, dbVars>>
    /\ unitCall.fn = "getAverageSalary"
    /\ ~unitCall.returned
    /\ unitRet' = getAverageSalary(unitCall.count, unitCall.sum)
    /\ unitCall' = [unitCall EXCEPT !.returned = TRUE]

NextUnit ==
    \/ Call_getSortedDict
    \/ Call_getAverageSalary

SpecUnit == InitUnit /\ [][NextUnit]_vars

\* C3: getSortedDict(m) has min(10, |m|) entries of m, in non-increasing order of
\* value, and every entry of m it leaves out has a value no higher than any it keeps.
C3_Top10 ==
    (unitCall.fn = "getSortedDict" /\ unitCall.returned) =>
        LET m == unitCall.keySalary
            r == unitRet
        IN /\ Len(r) = IF Len(m) < 10 THEN Len(m) ELSE 10
           /\ Range(r) \subseteq Range(m)
           /\ Cardinality(Range(r)) = Len(r)
           /\ \A i \in 1..(Len(r) - 1) : r[i][2] >= r[i + 1][2]
           /\ \A out \in Range(m) \ Range(r) : \A kept \in Range(r) : out[2] <= kept[2]

C3_Witness ==
    /\ unitCall.fn = "getSortedDict" /\ unitCall.returned
    /\ unitCall.keySalary = [i \in 1..12 |-> <<i, i>>]
    /\ Len(unitRet) = 10
    /\ Range(unitCall.keySalary) \ Range(unitRet) = {<<1, 1>>, <<2, 2>>}
    /\ unitRet[1] = <<12, 12>> /\ unitRet[10] = <<3, 3>>

\* C4: getAverageSalary returns a map with exactly the keys of the count map, in
\* which a key of count 0 has average 0 and any other key has floor(sum / count).
C4_AverageRule ==
    (unitCall.fn = "getAverageSalary" /\ unitCall.returned) =>
        LET count == unitCall.count
            sum == unitCall.sum
            unit == RateScale * AvgScale
        IN /\ DictKeys(unitRet) = DictKeys(count)
           /\ \A i \in 1..Len(count) :
                 LET c == count[i][2]
                     a == unitRet[i][2]
                     total == DictGet(sum, count[i][1])
                 IN IF c = 0 THEN a = 0
                    ELSE a * c * unit <= total /\ total < (a + 1) * c * unit

C4_Witness ==
    /\ unitCall.fn = "getAverageSalary" /\ unitCall.returned
    /\ unitCall.count = << <<"2007", 2>> >>
    /\ unitCall.sum = << <<"2007", 10 * RateScale * AvgScale>> >>
    /\ unitRet = << <<"2007", 5>> >>

(***************************************************************************)
(* create_table (3_5_1.py)                                                 *)
(***************************************************************************)
CurrencyRows == {"USD", "EUR"}
CsvFiles == UNION {[1..n -> CurrencyRows] : n \in 0..MaxCsvRows}

InitTable ==
    /\ file = <<>>
    /\ DataSetAt("idle")
    /\ UnitIdle
    /\ dbPc = "connect"
    /\ dbEnv \in {[csv |-> c, error |-> "none"] : c \in CsvFiles}
    /\ dbConn = "unbound"
    /\ dbTable \in CsvFiles
    /\ dbOut = <<>>
    /\ dbRaised = "none"

\* sqlite3.connect('Database_3_5_1.db'): binds sqlite_connection, or raises
\* sqlite3.Error and leaves it unbound
db_connect ==
    /\ UNCHANGED <<dsVars, unitVars>>
    /\ dbPc = "connect"
    /\ \/ /\ dbConn' = "open" /\ dbPc' = "cursor" /\ UNCHANGED dbEnv
       \/ /\ dbEnv' = [dbEnv EXCEPT !.error = "connect"]
          /\ dbPc' = "except" /\ UNCHANGED dbConn
    /\ UNCHANGED <<dbTable, dbOut, dbRaised>>

\* sqlite_connection.cursor(), which may raise sqlite3.Error
db_cursor ==
    /\ UNCHANGED <<dsVars, unitVars>>
    /\ dbPc = "cursor"
    /\ \/ dbPc' = "read_csv" /\ UNCHANGED dbEnv
       \/ dbEnv' = [dbEnv EXCEPT !.error = "cursor"] /\ dbPc' = "except"
    /\ UNCHANGED <<dbConn, dbTable, dbOut, dbRaised>>

\* pd.read_csv("currencies.csv"), which may raise an error that is no sqlite3.Error
db_read_csv ==
    /\ UNCHANGED <<dsVars, unitVars>>
    /\ dbPc = "read_csv"
    /\ \/ dbPc' = "to_sql" /\ UNCHANGED dbRaised
       \/ dbPc' = "finally" /\ dbRaised' = "FileNotFoundError"
    /\ UNCHANGED <<dbEnv, dbConn, dbTable, dbOut>>

\* df.to_sql('task_3_5_1', ..., if_exists='replace'): replaces the table, or raises
\* sqlite3.Error, or raises the library's own error
db_to_sql ==
    /\ UNCHANGED <<dsVars, unitVars>>
    /\ dbPc = "to_sql"
    /\ \/ /\ dbTable' = dbEnv.csv /\ dbPc' = "cursor_close"
          /\ UNCHANGED <<dbEnv, dbRaised>>
       \/ /\ dbEnv' = [dbEnv EXCEPT !.error = "to_sql"] /\ dbPc' = "except"
          /\ UNCHANGED <<dbTable, dbRaised>>
       \/ /\ dbRaised' = "pandas.DatabaseError" /\ dbPc' = "finally"
          /\ UNCHANGED <<dbTable, dbEnv>>
    /\ UNCHANGED <<dbConn, dbOut>>

\* cursor.close()
db_cursor_close ==
    /\ UNCHANGED <<dsVars, unitVars>>
    /\ dbPc = "cursor_close"
    /\ dbPc' = "finally"
    /\ UNCHANGED <<dbEnv, dbConn, dbTable, dbOut, dbRaised>>

\* except sqlite3.Error as error: print(...)
db_except ==
    /\ UNCHANGED <<dsVars, unitVars>>
    /\ dbPc = "except"
    /\ dbOut' = Append(dbOut, "Oshibka pri podklyuchenii k sqlite")
    /\ dbPc' = "finally"
    /\ UNCHANGED <<dbEnv, dbConn, dbTable, dbRaised>>

\* finally: if (sqlite_connection): close and print; reading the unbound local
\* raises UnboundLocalError
db_finally ==
    /\ UNCHANGED <<dsVars, unitVars>>
    /\ dbPc = "finally"
    /\ IF dbConn = "unbound"
       THEN /\ dbRaised' = "UnboundLocalError"
            /\ dbPc' = "raised"
            /\ UNCHANGED <<dbConn, dbOut>>
       ELSE /\ dbConn' = "closed"
            /\ dbOut' = Append(dbOut, "Soedinenie s SQLite zakryto")
            /\ dbPc' = IF dbRaised = "none" THEN "returned" ELSE "raised"
            /\ UNCHANGED dbRaised
    /\ UNCHANGED <<dbEnv, dbTable>>

NextTable ==
    \/ db_connect
    \/ db_cursor
    \/ db_read_csv
    \/ db_to_sql
    \/ db_cursor_close
    \/ db_except
    \/ db_finally

SpecTable == InitTable /\ [][NextTable]_vars

\* C9: when opening or using the connection failed with a database error,
\* create_table has printed the error and returns normally: no exception leaves it.
C9_ErrorsSwallowed ==
    (dbPc \in {"returned", "raised"} /\ dbEnv.error # "none") =>
        /\ "Oshibka pri podklyuchenii k sqlite" \in Range(dbOut)
        /\ dbPc = "returned"
        /\ dbRaised = "none"

====
